---- MODULE Spec2Model ----
(***************************************************************************)
(* Model of koh's `cleanup` command (cmd/cleanup.go, runCleanup): the      *)
(* worktree teardown orchestrator.  Strings are sequences of one-character *)
(* strings; an absolute, cleaned path is the sequence of its segments      *)
(* ("/" is the empty sequence).                                            *)
(***************************************************************************)
EXTENDS Naturals, Sequences, FiniteSets

VARIABLES
  goos,               \* runtime.GOOS
  args,               \* command-line arguments of the invocation
  inTmux,             \* whether the process runs inside a tmux session
  startDir,           \* working directory of the invoking shell
  exists,             \* paths that exist on disk
  diskAtStart,        \* paths that existed when this invocation started
  run,                \* number of the current invocation
  pc,                 \* position inside runCleanup
  cwd,                \* working directory of the process
  worktreeName, mainRepoRoot, worktreePath, worktreeExists,
  isInTargetWorktree, repoName,       \* locals of runCleanup
  ctxAcquired,        \* number of SetupCancellableContext calls of this run
  released,           \* number of times the deferred cleanup() ran
  err,                \* error returned by runCleanup
  calls,              \* collaborator calls of this run, in order
  out,                \* reports printed by this run, in order
  ctx,                \* the context held by runCleanup
  cancelledAt,        \* when the interrupt cancelled the context
  inflightCtx         \* context held by the VCS removal in flight

env    == <<goos, args, inTmux, startDir, run, diskAtStart>>
locals == <<worktreeName, mainRepoRoot, worktreePath, worktreeExists,
            isInTargetWorktree, repoName>>
vars   == <<goos, args, inTmux, startDir, exists, diskAtStart, run, pc, cwd, worktreeName,
            mainRepoRoot, worktreePath, worktreeExists, isInTargetWorktree,
            repoName, ctxAcquired, released, err, calls, out,
            ctx, cancelledAt, inflightCtx>>
sig    == <<ctx, cancelledAt, inflightCtx>>

----------------------------------------------------------------------------
(* Bounds and the finite world the inputs are drawn from.                  *)

MaxRuns == 2

SegDotDot == <<".", ".">>
SegDot    == <<".">>
KohDir    == <<".", "k", "o", "h">>
NameFx    == <<"f", "x">>
NameFxy   == <<"f", "x", "y">>
NameE     == <<"e">>
NameDotC  == <<".", ".", "c">>
NameR     == <<"r">>

MainRoot  == <<NameR>>
NoPath    == << <<>> >>

ArgNames ==
  { NameFx, NameE, <<>>, SegDotDot, SegDot, NameDotC,
    <<".", ".", "/", ".", ".", "/", "e">>, <<"f", "/", "x">> }

ArgLists == {<<>>} \cup { <<n>> : n \in ArgNames }

StartDirs ==
  { <<>>, <<NameE>>, MainRoot, <<NameR, KohDir>>, <<NameR, KohDir, NameFx>>,
    <<NameR, KohDir, NameFx, NameE>>, <<NameR, KohDir, NameFx, NameDotC>>,
    <<NameR, KohDir, NameFxy>> }

WorktreeRoots ==
  { <<NameR, KohDir, NameFx>>, <<NameR, KohDir, NameDotC>>, <<>> }

DiskPaths == { <<NameR, KohDir, NameFx>>, <<NameR, KohDir, NameE>> }

CtxNone       == "none"
CtxSignal     == "signal context"
CtxBackground == "context.Background"
Never         == "never"

ErrNone    == "nil"
ErrWindows == "cleanup command is not supported on Windows"
ErrExtract == "failed to extract worktree name"
ErrInvalid == "invalid worktree name"
ErrRoot    == "failed to get main repository root"
ErrGetwd   == "failed to get current directory"
ErrChdir   == "failed to change to parent directory"

----------------------------------------------------------------------------
(* Pure functions.                                                         *)

RECURSIVE SplitFrom(_, _, _)
\* strings.Split(s, "/") continued: cur is the segment being read.
SplitFrom(s, i, cur) ==
  IF i > Len(s) THEN <<cur>>
  ELSE IF s[i] = "/" THEN <<cur>> \o SplitFrom(s, i + 1, <<>>)
  ELSE SplitFrom(s, i + 1, Append(cur, s[i]))

Split(s) == SplitFrom(s, 1, <<>>)

RECURSIVE CleanFrom(_, _, _)
\* filepath.Clean of a rooted path given as raw segments.
CleanFrom(segs, i, acc) ==
  IF i > Len(segs) THEN acc
  ELSE IF segs[i] = <<>> \/ segs[i] = SegDot THEN CleanFrom(segs, i + 1, acc)
  ELSE IF segs[i] = SegDotDot
    THEN CleanFrom(segs, i + 1,
                   IF Len(acc) = 0 THEN acc ELSE SubSeq(acc, 1, Len(acc) - 1))
  ELSE CleanFrom(segs, i + 1, Append(acc, segs[i]))

Clean(segs) == CleanFrom(segs, 1, <<>>)

\* filepath.Join(root, a, b) for an absolute root.
Join(root, a, b) == Clean(root \o Split(a) \o Split(b))

\* filepath.Base of an absolute path.
Base(p) == IF Len(p) = 0 THEN <<"/">> ELSE p[Len(p)]

\* filepath.Abs of an absolute path.
Abs(p) == Clean(p)

RECURSIVE CommonLen(_, _, _)
CommonLen(a, b, i) ==
  IF i < Len(a) /\ i < Len(b) /\ a[i + 1] = b[i + 1]
    THEN CommonLen(a, b, i + 1) ELSE i

RECURSIVE JoinSegs(_)
\* strings.Join(segs, "/")
JoinSegs(segs) ==
  IF Len(segs) = 0 THEN <<>>
  ELSE IF Len(segs) = 1 THEN segs[1]
  ELSE segs[1] \o <<"/">> \o JoinSegs(Tail(segs))

\* filepath.Rel(base, targ) for two cleaned absolute paths, as a string.
Rel(base, targ) ==
  LET k   == CommonLen(base, targ, 0)
      ups == [i \in 1..(Len(base) - k) |-> SegDotDot]
      rest == SubSeq(targ, k + 1, Len(targ))
  IN IF Len(base) = k /\ Len(targ) = k THEN SegDot
     ELSE JoinSegs(ups \o rest)

\* strings.HasPrefix
HasPrefix(s, p) == Len(s) >= Len(p) /\ SubSeq(s, 1, Len(p)) = p

\* the namespace directory is left out of the path
WorktreePathNoNamespace(root, name) == Join(root, <<>>, name)

WorktreePath(root, name) == Join(root, KohDir, name)

\* containment decided by a prefix test on the two path strings
IsInTargetStringPrefix(absWorktreePath, currentPath) ==
  HasPrefix(JoinSegs(currentPath), JoinSegs(absWorktreePath))

IsInTarget(absWorktreePath, currentPath) ==
  ~HasPrefix(Rel(absWorktreePath, currentPath), SegDotDot)

\* validation.ValidateWorktreeName succeeds
AllowedChars == {"f", "x", "y", "e", "c", "r", "-", "_"}
HasDotDot(s) == \E i \in 1..(Len(s) - 1) : s[i] = "." /\ s[i + 1] = "."
ValidName(name) ==
  /\ Len(name) > 0
  /\ ~HasDotDot(name)
  /\ \A i \in 1..Len(name) : name[i] # "/" /\ name[i] \in AllowedChars

\* the window name is built with another separator
WindowNameDash(repo, name) == repo \o <<"-">> \o name

WindowName(repo, name) == repo \o <<"|">> \o name

----------------------------------------------------------------------------
(* Control helpers.                                                        *)

Call(op, arg, res) == [op |-> op, arg |-> arg, res |-> res, cwd |-> cwd]

\* cleanup() called at the end of the function instead of deferred
FailNoDefer(e) ==
  /\ pc' = "done"
  /\ err' = e
  /\ released' = IF e = ErrNone THEN released + ctxAcquired ELSE released

\* return e: the deferred cleanup() runs if it was registered.
Fail(e) == pc' = "done" /\ err' = e /\ released' = released + ctxAcquired

Goto(l) == pc' = l /\ err' = err /\ released' = released

----------------------------------------------------------------------------
\* directory d is p or a directory below p
InDir(d, p) == Len(d) >= Len(p) /\ SubSeq(d, 1, Len(p)) = p

Init ==
  /\ goos \in {"linux", "windows"}
  /\ args \in ArgLists
  /\ inTmux \in BOOLEAN
  /\ startDir \in StartDirs
  /\ exists \in SUBSET DiskPaths
  /\ \A p \in DiskPaths : InDir(startDir, p) => p \in exists
  /\ diskAtStart = exists
  /\ run = 1
  /\ pc = "start"
  /\ cwd = startDir
  /\ worktreeName = <<>>
  /\ mainRepoRoot = NoPath
  /\ worktreePath = NoPath
  /\ worktreeExists = FALSE
  /\ isInTargetWorktree = FALSE
  /\ repoName = <<>>
  /\ ctxAcquired = 0
  /\ released = 0
  /\ err = ErrNone
  /\ calls = <<>>
  /\ out = <<>>
  /\ ctx = CtxNone
  /\ cancelledAt = Never
  /\ inflightCtx = CtxNone

\* the platform test compares against a name GOOS never has
CheckPlatformWrongName ==
  /\ pc = "start"
  /\ IF goos = "win32" THEN Fail(ErrWindows) ELSE Goto("resolve")
  /\ UNCHANGED <<env, sig, exists, cwd, locals, ctxAcquired, calls, out>>

CheckPlatform ==
  /\ pc = "start"
  /\ IF goos = "windows" THEN Fail(ErrWindows) ELSE Goto("resolve")
  /\ UNCHANGED <<env, sig, exists, cwd, locals, ctxAcquired, calls, out>>

ExtractWorkTreeName ==
  \/ /\ calls' = Append(calls, Call("IsInWorktree", <<>>, "false"))
     /\ Fail(ErrExtract)
     /\ UNCHANGED <<worktreeName, out>>
  \/ /\ calls' = calls \o <<Call("IsInWorktree", <<>>, "true"),
                            Call("GetCurrentWorktreePath", <<>>, "fail")>>
     /\ Fail(ErrExtract)
     /\ UNCHANGED <<worktreeName, out>>
  \/ \E p \in WorktreeRoots :
       /\ calls' = calls \o <<Call("IsInWorktree", <<>>, "true"),
                              Call("GetCurrentWorktreePath", <<>>, "ok")>>
       /\ worktreeName' = Base(p)
       /\ out' = Append(out, "Detected current worktree")
       /\ Goto("validate")

ResolveTarget ==
  /\ pc = "resolve"
  /\ IF Len(args) = 0
       THEN ExtractWorkTreeName
       ELSE /\ worktreeName' = args[1]
            /\ Goto("validate")
            /\ UNCHANGED <<calls, out>>
  /\ UNCHANGED <<env, sig, exists, cwd, mainRepoRoot, worktreePath, worktreeExists,
                 isInTargetWorktree, repoName, ctxAcquired>>

\* the validator's error is dropped
ValidateIgnored ==
  /\ pc = "validate"
  /\ IF ValidName(worktreeName)
       THEN calls' = Append(calls, Call("Validate", worktreeName, "ok"))
       ELSE calls' = Append(calls, Call("Validate", worktreeName, "fail"))
  /\ Goto("setup")
  /\ UNCHANGED <<env, sig, exists, cwd, locals, ctxAcquired, out>>

Validate ==
  /\ pc = "validate"
  /\ IF ValidName(worktreeName)
       THEN /\ calls' = Append(calls, Call("Validate", worktreeName, "ok"))
            /\ Goto("setup")
       ELSE /\ calls' = Append(calls, Call("Validate", worktreeName, "fail"))
            /\ Fail(ErrInvalid)
  /\ UNCHANGED <<env, sig, exists, cwd, locals, ctxAcquired, out>>

SetupContext ==
  /\ pc = "setup"
  /\ ctxAcquired' = ctxAcquired + 1
  /\ calls' = Append(calls, Call("SetupCancellableContext", <<>>, "ok"))
  /\ ctx' = CtxSignal
  /\ Goto("getroot")
  /\ UNCHANGED <<env, cancelledAt, inflightCtx, exists, cwd, locals, out>>

GetMainRepoRoot ==
  /\ pc = "getroot"
  /\ \/ /\ calls' = Append(calls, Call("GetMainRepoRoot", <<>>, "fail"))
        /\ Fail(ErrRoot)
        /\ UNCHANGED <<mainRepoRoot, worktreePath>>
     \/ /\ calls' = Append(calls, Call("GetMainRepoRoot", <<>>, "ok"))
        /\ mainRepoRoot' = MainRoot
        /\ worktreePath' = WorktreePath(MainRoot, worktreeName)
        /\ Goto("stat")
  /\ UNCHANGED <<env, sig, exists, cwd, worktreeName, worktreeExists,
                 isInTargetWorktree, repoName, ctxAcquired, out>>

\* worktreeExists is not cleared when the path is reported missing
StatKeepsExists ==
  /\ pc = "stat"
  /\ \/ /\ worktreePath \in exists
        /\ calls' = Append(calls, Call("Stat", worktreePath, "ok"))
        /\ out' = out
     \/ /\ calls' = Append(calls, Call("Stat", worktreePath, "othererr"))
        /\ out' = out
     \/ /\ worktreePath \notin exists
        /\ calls' = Append(calls, Call("Stat", worktreePath, "notexist"))
        /\ out' = out \o <<"Warning: Worktree not found",
                           "Will attempt to clean up tmux window only">>
  /\ worktreeExists' = TRUE
  /\ Goto("getwd")
  /\ UNCHANGED <<env, sig, exists, cwd, worktreeName, mainRepoRoot, worktreePath,
                 isInTargetWorktree, repoName, ctxAcquired>>

Stat ==
  /\ pc = "stat"
  /\ \/ /\ worktreePath \in exists
        /\ calls' = Append(calls, Call("Stat", worktreePath, "ok"))
        /\ worktreeExists' = TRUE
        /\ out' = out
     \/ /\ calls' = Append(calls, Call("Stat", worktreePath, "othererr"))
        /\ worktreeExists' = TRUE
        /\ out' = out
     \/ /\ worktreePath \notin exists
        /\ calls' = Append(calls, Call("Stat", worktreePath, "notexist"))
        /\ worktreeExists' = FALSE
        /\ out' = out \o <<"Warning: Worktree not found",
                           "Will attempt to clean up tmux window only">>
  /\ Goto("getwd")
  /\ UNCHANGED <<env, sig, exists, cwd, worktreeName, mainRepoRoot, worktreePath,
                 isInTargetWorktree, repoName, ctxAcquired>>

Getwd ==
  /\ pc = "getwd"
  /\ \/ /\ calls' = Append(calls, Call("Getwd", <<>>, "fail"))
        /\ Fail(ErrGetwd)
        /\ UNCHANGED isInTargetWorktree
     \/ /\ calls' = Append(calls, Call("Getwd", <<>>, "ok"))
        /\ isInTargetWorktree' = IsInTarget(Abs(worktreePath), Abs(cwd))
        /\ Goto("relocate")
  /\ UNCHANGED <<env, sig, exists, cwd, worktreeName, mainRepoRoot, worktreePath,
                 worktreeExists, repoName, ctxAcquired, out>>

\* a failed chdir is only warned about
RelocateWarnOnly ==
  /\ pc = "relocate"
  /\ IF isInTargetWorktree
       THEN \/ /\ calls' = Append(calls, Call("Chdir", mainRepoRoot, "fail"))
               /\ out' = Append(out, "Running from within target worktree")
               /\ cwd' = cwd
            \/ /\ calls' = Append(calls, Call("Chdir", mainRepoRoot, "ok"))
               /\ out' = out \o <<"Running from within target worktree",
                                  "Changed directory">>
               /\ cwd' = mainRepoRoot
       ELSE UNCHANGED <<calls, out, cwd>>
  /\ Goto("rmwt")
  /\ UNCHANGED <<env, sig, exists, locals, ctxAcquired>>

Relocate ==
  /\ pc = "relocate"
  /\ IF isInTargetWorktree
       THEN \/ /\ calls' = Append(calls, Call("Chdir", mainRepoRoot, "fail"))
               /\ out' = Append(out, "Running from within target worktree")
               /\ Fail(ErrChdir)
               /\ cwd' = cwd
            \/ /\ calls' = Append(calls, Call("Chdir", mainRepoRoot, "ok"))
               /\ out' = out \o <<"Running from within target worktree",
                                  "Changed directory">>
               /\ cwd' = mainRepoRoot
               /\ Goto("rmwt")
       ELSE /\ Goto("rmwt")
            /\ UNCHANGED <<calls, out, cwd>>
  /\ UNCHANGED <<env, sig, exists, locals, ctxAcquired>>

\* the directory removal is placed after the if block
RemoveWorktreeAlwaysCleans ==
  /\ pc = "rmwt"
  /\ IF worktreeExists
       THEN /\ out' = Append(out, "Removing git worktree")
            /\ inflightCtx' = ctx
            /\ Goto("rmwt_wait")
       ELSE /\ Goto("rmall")
            /\ UNCHANGED <<out, inflightCtx>>
  /\ UNCHANGED <<env, ctx, cancelledAt, exists, calls, cwd, locals, ctxAcquired>>

\* the removal is started with a context of its own
RemoveWorktreeBackgroundCtx ==
  /\ pc = "rmwt"
  /\ IF worktreeExists
       THEN /\ out' = Append(out, "Removing git worktree")
            /\ inflightCtx' = CtxBackground
            /\ Goto("rmwt_wait")
       ELSE /\ Goto("tmux")
            /\ UNCHANGED <<out, inflightCtx>>
  /\ UNCHANGED <<env, ctx, cancelledAt, exists, calls, cwd, locals, ctxAcquired>>

\* the VCS removal is started whatever the probe found
RemoveWorktreeUnconditional ==
  /\ pc = "rmwt"
  /\ out' = Append(out, "Removing git worktree")
  /\ inflightCtx' = ctx
  /\ Goto("rmwt_wait")
  /\ UNCHANGED <<env, ctx, cancelledAt, exists, calls, cwd, locals, ctxAcquired>>

\* git.RemoveWorktreeWithContext(ctx, worktreePath) is called
RemoveWorktree ==
  /\ pc = "rmwt"
  /\ IF worktreeExists
       THEN /\ out' = Append(out, "Removing git worktree")
            /\ inflightCtx' = ctx
            /\ Goto("rmwt_wait")
       ELSE /\ Goto("tmux")
            /\ UNCHANGED <<out, inflightCtx>>
  /\ UNCHANGED <<env, ctx, cancelledAt, exists, calls, cwd, locals, ctxAcquired>>

\* the context the removal in flight holds has been cancelled
InflightCancelled == inflightCtx = CtxSignal /\ cancelledAt # Never

\* the directory removal is skipped when the VCS removal failed
RemoveWorktreeFinishSkipsCleanup ==
  /\ pc = "rmwt_wait"
  /\ ~InflightCancelled
  /\ \/ /\ calls' = Append(calls, Call("RemoveWorktree", worktreePath, "fail"))
        /\ out' = Append(out, "Warning: Failed to remove worktree")
        /\ exists' = exists
        /\ Goto("tmux")
     \/ /\ calls' = Append(calls, Call("RemoveWorktree", worktreePath, "ok"))
        /\ out' = Append(out, "Worktree removed successfully")
        /\ exists' = exists \ {worktreePath}
        /\ Goto("rmall")
  /\ inflightCtx' = CtxNone
  /\ UNCHANGED <<env, ctx, cancelledAt, cwd, locals, ctxAcquired>>

\* the removal runs to its end and returns
RemoveWorktreeFinish ==
  /\ pc = "rmwt_wait"
  /\ ~InflightCancelled
  /\ \/ /\ calls' = Append(calls, Call("RemoveWorktree", worktreePath, "fail"))
        /\ out' = Append(out, "Warning: Failed to remove worktree")
        /\ exists' = exists
     \/ /\ calls' = Append(calls, Call("RemoveWorktree", worktreePath, "ok"))
        /\ out' = Append(out, "Worktree removed successfully")
        /\ exists' = exists \ {worktreePath}
  /\ inflightCtx' = CtxNone
  /\ Goto("rmall")
  /\ UNCHANGED <<env, ctx, cancelledAt, cwd, locals, ctxAcquired>>

\* the removal observes the cancellation and returns an error
RemoveWorktreeAbort ==
  /\ pc = "rmwt_wait"
  /\ InflightCancelled
  /\ calls' = Append(calls, Call("RemoveWorktree", worktreePath, "cancelled"))
  /\ out' = Append(out, "Warning: Failed to remove worktree")
  /\ inflightCtx' = CtxNone
  /\ Goto("rmall")
  /\ UNCHANGED <<env, ctx, cancelledAt, exists, cwd, locals, ctxAcquired>>

\* where the run stands relative to the VCS removal
Phase(l) ==
  IF l = "rmwt_wait" THEN "during"
  ELSE IF l \in {"rmall", "tmux", "reponame", "closewindow", "complete"}
    THEN "after"
  ELSE "before"

\* an interrupt signal reaches the process: the handler cancels the context
Interrupt ==
  /\ ctx = CtxSignal
  /\ pc # "done"
  /\ cancelledAt = Never
  /\ cancelledAt' = Phase(pc)
  /\ UNCHANGED <<env, ctx, inflightCtx, exists, pc, err, released, cwd, locals,
                 ctxAcquired, calls, out>>

\* a failed directory removal is returned as an error
RemoveAllFatal ==
  /\ pc = "rmall"
  /\ \/ /\ calls' = Append(calls, Call("RemoveAll", worktreePath, "fail"))
        /\ out' = out
        /\ exists' = exists
        /\ Fail("failed to remove worktree directory")
     \/ /\ calls' = Append(calls, Call("RemoveAll", worktreePath, "ok"))
        /\ out' = out
        /\ exists' = exists \ {worktreePath}
        /\ Goto("tmux")
  /\ UNCHANGED <<env, sig, cwd, locals, ctxAcquired>>

\* the directory removal gives up when the context is cancelled
RemoveAllChecksCtx ==
  /\ pc = "rmall"
  /\ IF cancelledAt # Never
       THEN /\ Fail("context canceled")
            /\ UNCHANGED <<calls, out, exists>>
       ELSE /\ \/ /\ calls' = Append(calls,
                                     Call("RemoveAll", worktreePath, "fail"))
                  /\ out' = Append(out,
                                   "Warning: Failed to remove worktree directory")
                  /\ exists' = exists
               \/ /\ calls' = Append(calls,
                                     Call("RemoveAll", worktreePath, "ok"))
                  /\ out' = out
                  /\ exists' = exists \ {worktreePath}
            /\ Goto("tmux")
  /\ UNCHANGED <<env, sig, cwd, locals, ctxAcquired>>

\* a failed directory removal is tried a second time
RemoveAllRetry ==
  /\ pc = "rmall"
  /\ \/ /\ calls' = calls \o <<Call("RemoveAll", worktreePath, "fail"),
                               Call("RemoveAll", worktreePath, "fail")>>
        /\ out' = Append(out, "Warning: Failed to remove worktree directory")
        /\ exists' = exists
     \/ /\ calls' = Append(calls, Call("RemoveAll", worktreePath, "ok"))
        /\ out' = out
        /\ exists' = exists \ {worktreePath}
  /\ Goto("tmux")
  /\ UNCHANGED <<env, sig, cwd, locals, ctxAcquired>>

RemoveAll ==
  /\ pc = "rmall"
  /\ \/ /\ calls' = Append(calls, Call("RemoveAll", worktreePath, "fail"))
        /\ out' = Append(out, "Warning: Failed to remove worktree directory")
        /\ exists' = exists
     \/ /\ calls' = Append(calls, Call("RemoveAll", worktreePath, "ok"))
        /\ out' = out
        /\ exists' = exists \ {worktreePath}
  /\ Goto("tmux")
  /\ UNCHANGED <<env, sig, cwd, locals, ctxAcquired>>

\* the session step runs without looking at the session
IsInTmuxAlways ==
  /\ pc = "tmux"
  /\ calls' = Append(calls, Call("IsInTmux", <<>>, "true"))
  /\ out' = out
  /\ Goto("reponame")
  /\ UNCHANGED <<env, sig, exists, cwd, locals, ctxAcquired>>

IsInTmux ==
  /\ pc = "tmux"
  /\ IF inTmux
       THEN /\ calls' = Append(calls, Call("IsInTmux", <<>>, "true"))
            /\ out' = out
            /\ Goto("reponame")
       ELSE /\ calls' = Append(calls, Call("IsInTmux", <<>>, "false"))
            /\ out' = Append(out, "Not in a tmux session, skipping tmux cleanup")
            /\ Goto("complete")
  /\ UNCHANGED <<env, sig, exists, cwd, locals, ctxAcquired>>

\* a failed repository-name lookup is returned as an error
GetRepoNameFatal ==
  /\ pc = "reponame"
  /\ \/ /\ calls' = Append(calls, Call("GetRepoName", <<>>, "fail"))
        /\ out' = out
        /\ repoName' = <<>>
        /\ Fail("failed to get repository name")
     \/ /\ calls' = Append(calls, Call("GetRepoName", <<>>, "ok"))
        /\ out' = out
        /\ repoName' = NameR
        /\ Goto("closewindow")
  /\ UNCHANGED <<env, sig, exists, cwd, worktreeName, mainRepoRoot, worktreePath,
                 worktreeExists, isInTargetWorktree, ctxAcquired>>

GetRepoName ==
  /\ pc = "reponame"
  /\ \/ /\ calls' = Append(calls, Call("GetRepoName", <<>>, "fail"))
        /\ out' = Append(out, "Warning: Failed to get repository name")
        /\ repoName' = <<>>
     \/ /\ calls' = Append(calls, Call("GetRepoName", <<>>, "ok"))
        /\ out' = out
        /\ repoName' = NameR
  /\ Goto("closewindow")
  /\ UNCHANGED <<env, sig, exists, cwd, worktreeName, mainRepoRoot, worktreePath,
                 worktreeExists, isInTargetWorktree, ctxAcquired>>

\* a failed window closure is returned as an error
CloseWindowFatal ==
  /\ pc = "closewindow"
  /\ \/ /\ calls' = Append(calls,
             Call("CloseWindow",
                  <<WindowName(repoName, worktreeName), worktreeName>>, "fail"))
        /\ out' = out
        /\ Fail("failed to close tmux window")
     \/ /\ calls' = Append(calls,
             Call("CloseWindow",
                  <<WindowName(repoName, worktreeName), worktreeName>>, "ok"))
        /\ out' = Append(out, "Tmux window closed")
        /\ Goto("complete")
  /\ UNCHANGED <<env, sig, exists, cwd, locals, ctxAcquired>>

CloseWindow ==
  /\ pc = "closewindow"
  /\ \/ /\ calls' = Append(calls,
             Call("CloseWindow",
                  <<WindowName(repoName, worktreeName), worktreeName>>, "fail"))
        /\ out' = Append(out, "Warning: close window failed")
     \/ /\ calls' = Append(calls,
             Call("CloseWindow",
                  <<WindowName(repoName, worktreeName), worktreeName>>, "ok"))
        /\ out' = Append(out, "Tmux window closed")
  /\ Goto("complete")
  /\ UNCHANGED <<env, sig, exists, cwd, locals, ctxAcquired>>

Complete ==
  /\ pc = "complete"
  /\ out' = Append(out, "Cleanup complete!")
  /\ Fail(ErrNone)
  /\ UNCHANGED <<env, sig, exists, cwd, locals, ctxAcquired, calls>>

\* The same command line is run again from the same shell; the disk persists.
Invoke ==
  /\ pc = "done"
  /\ run < MaxRuns
  /\ run' = run + 1
  /\ pc' = "start"
  /\ cwd' = startDir
  /\ worktreeName' = <<>>
  /\ mainRepoRoot' = NoPath
  /\ worktreePath' = NoPath
  /\ worktreeExists' = FALSE
  /\ isInTargetWorktree' = FALSE
  /\ repoName' = <<>>
  /\ ctxAcquired' = 0
  /\ released' = 0
  /\ err' = ErrNone
  /\ calls' = <<>>
  /\ out' = <<>>
  /\ ctx' = CtxNone
  /\ cancelledAt' = Never
  /\ inflightCtx' = CtxNone
  /\ diskAtStart' = exists
  /\ UNCHANGED <<goos, args, inTmux, startDir, exists>>

Next ==
  \/ CheckPlatform
  \/ ResolveTarget
  \/ Validate
  \/ SetupContext
  \/ GetMainRepoRoot
  \/ Stat
  \/ Getwd
  \/ Relocate
  \/ RemoveWorktree
  \/ RemoveWorktreeFinish
  \/ RemoveWorktreeAbort
  \/ Interrupt
  \/ RemoveAll
  \/ IsInTmux
  \/ GetRepoName
  \/ CloseWindow
  \/ Complete
  \/ Invoke

Spec == Init /\ [][Next]_vars

\* a step of runCleanup itself, every collaborator call returning
Step ==
  \/ CheckPlatform
  \/ ResolveTarget
  \/ Validate
  \/ SetupContext
  \/ GetMainRepoRoot
  \/ Stat
  \/ Getwd
  \/ Relocate
  \/ RemoveWorktree
  \/ RemoveWorktreeFinish
  \/ RemoveWorktreeAbort
  \/ RemoveAll
  \/ IsInTmux
  \/ GetRepoName
  \/ CloseWindow
  \/ Complete

\* runCleanup is sequential code: it keeps running until it returns
FairSpec == Spec /\ WF_vars(Step)

\* only a cancelled removal is bound to return; an uncancelled one may run on
InterruptSpec == Spec /\ WF_vars(RemoveWorktreeAbort)

----------------------------------------------------------------------------
(* Vocabulary of the properties.                                           *)

VcsOps  == {"IsInWorktree", "GetCurrentWorktreePath", "GetMainRepoRoot",
            "RemoveWorktree", "GetRepoName"}
FsOps   == {"Stat", "Getwd", "Chdir", "RemoveAll"}
TmuxOps == {"IsInTmux", "CloseWindow"}
InferenceOps   == {"IsInWorktree", "GetCurrentWorktreePath"}
RemovalOps     == {"RemoveWorktree", "RemoveAll"}
DestructiveOps == {"RemoveWorktree", "RemoveAll", "CloseWindow"}
FailureWarnings ==
  {"Warning: Failed to remove worktree",
   "Warning: Failed to remove worktree directory",
   "Warning: Failed to get repository name",
   "Warning: close window failed"}

CallIdx == 1..Len(calls)
HasCall(op) == \E i \in CallIdx : calls[i].op = op
HasResult(op, res) == \E i \in CallIdx : calls[i].op = op /\ calls[i].res = res
Printed(msg) == \E i \in 1..Len(out) : out[i] = msg
LastReport == IF Len(out) = 0 THEN "" ELSE out[Len(out)]

\* p is t or lies below t
IsUnder(p, t) == Len(p) >= Len(t) /\ SubSeq(p, 1, Len(t)) = t

\* the validator was handed an identifier it rejects
Rejected ==
  \E i \in CallIdx : calls[i].op = "Validate" /\ ~ValidName(calls[i].arg)

\* the existence probe reported the path as missing
ProbeAbsent == HasResult("Stat", "notexist")

\* one of the aborting conditions other than the platform test occurred
FatalCall ==
  \/ HasResult("IsInWorktree", "false")
  \/ HasResult("GetCurrentWorktreePath", "fail")
  \/ Rejected
  \/ HasResult("GetMainRepoRoot", "fail")
  \/ HasResult("Getwd", "fail")
  \/ HasResult("Chdir", "fail")

FatalCondition == goos = "windows" \/ FatalCall

----------------------------------------------------------------------------
\* C1 (as stated): a run whose identifier, supplied or inferred, is rejected
\* by the validator returns the invalid-name error and has made no
\* filesystem, VCS or multiplexer call, and has built no worktree path.
C1_AsStated ==
  Rejected =>
    /\ pc = "done"
    /\ err = ErrInvalid
    /\ worktreePath = NoPath
    /\ \A i \in CallIdx : calls[i].op \notin (FsOps \cup VcsOps \cup TmuxOps)

\* C1 (amended): a run whose identifier is rejected by the validator returns
\* the invalid-name error, has built no worktree path and has made no
\* filesystem or multiplexer call; its only VCS calls are the two inference
\* queries, made before validation and only when no identifier was supplied.
C1_RejectionHasNoSideEffects ==
  Rejected =>
    /\ pc = "done"
    /\ err = ErrInvalid
    /\ worktreePath = NoPath
    /\ mainRepoRoot = NoPath
    /\ ctxAcquired = 0
    /\ cwd = startDir
    /\ exists = diskAtStart
    /\ \A i \in CallIdx :
         /\ calls[i].op \notin (FsOps \cup TmuxOps \cup (VcsOps \ InferenceOps))
         /\ calls[i].op \in InferenceOps =>
              /\ Len(args) = 0
              /\ \E j \in CallIdx : j > i /\ calls[j].op = "Validate"

C1_Witness ==
  /\ Rejected
  /\ pc = "done"
  /\ Len(args) = 0
  /\ worktreeName = NameDotC
  /\ HasResult("GetCurrentWorktreePath", "ok")

\* C2: every path handed to the existence probe, to VCS worktree removal or
\* to recursive removal is <main root>/.koh/<identifier>, with the identifier
\* validated and the main root resolved beforehand; a removal is never issued
\* on the main root or on the working directory.
C2_OnlyTargetPathIsTouched ==
  \A i \in CallIdx :
    calls[i].op \in ({"Stat"} \cup RemovalOps) =>
      /\ ValidName(worktreeName)
      /\ \E j \in 1..(i - 1) :
           /\ calls[j].op = "Validate"
           /\ calls[j].res = "ok"
           /\ calls[j].arg = worktreeName
      /\ \E j \in 1..(i - 1) :
           calls[j].op = "GetMainRepoRoot" /\ calls[j].res = "ok"
      /\ mainRepoRoot = MainRoot
      /\ calls[i].arg = mainRepoRoot \o <<KohDir, worktreeName>>
      /\ calls[i].op \in RemovalOps =>
           /\ calls[i].arg # mainRepoRoot
           /\ calls[i].arg # calls[i].cwd

C2_Witness ==
  /\ HasCall("Stat")
  /\ HasResult("RemoveWorktree", "ok")
  /\ HasResult("RemoveAll", "ok")
  /\ startDir = <<NameR, KohDir, NameFx>>
  /\ worktreeName = NameFx

\* C3 (as stated): no removal call executes while the working directory is
\* the target path or lies below it.
C3_NoRemovalFromInside ==
  \A i \in CallIdx :
    calls[i].op \in RemovalOps => ~IsUnder(calls[i].cwd, calls[i].arg)

\* C4: when the working directory is outside the computed target path, the
\* run never changes it and the skip raises no error.
C4_OutsideNeverRelocates ==
  (worktreePath # NoPath /\ ~IsUnder(startDir, worktreePath)) =>
    /\ cwd = startDir
    /\ ~HasCall("Chdir")
    /\ err # ErrChdir
    /\ pc \in {"rmwt", "rmall", "tmux", "reponame", "closewindow", "complete"}
         => err = ErrNone /\ ~isInTargetWorktree

C4_Witness ==
  /\ pc = "done"
  /\ err = ErrNone
  /\ worktreePath = <<NameR, KohDir, NameFx>>
  /\ startDir = <<NameR, KohDir, NameFxy>>
  /\ HasCall("RemoveAll")
  /\ cwd = startDir

\* C5 (as stated): when the probe finds the worktree path missing, the run
\* never calls VCS worktree removal and, if a multiplexer session is active,
\* it still attempts session-window closure and reports its outcome.
C5_AsStated ==
  (pc = "done" /\ ProbeAbsent) =>
    /\ ~HasCall("RemoveWorktree")
    /\ inTmux =>
         /\ HasCall("CloseWindow")
         /\ Printed("Tmux window closed") \/ Printed("Warning: close window failed")

\* C5 (amended): when the probe reports the worktree path missing, the run
\* never calls VCS worktree removal and returns an error only for a failed
\* working-directory lookup or relocation; a run that is not aborted that way
\* still attempts session-window closure, and reports its outcome, if a
\* multiplexer session is active.
C5_AbsenceSkipsVcsOnly ==
  ProbeAbsent =>
    /\ ~HasCall("RemoveWorktree")
    /\ ~worktreeExists
    /\ err \in {ErrNone, ErrGetwd, ErrChdir}
    /\ Printed("Warning: Worktree not found")
    /\ (pc = "done" /\ err = ErrNone /\ inTmux) =>
         /\ HasCall("CloseWindow")
         /\ Printed("Tmux window closed") \/ Printed("Warning: close window failed")

C5_Witness ==
  /\ pc = "done"
  /\ ProbeAbsent
  /\ inTmux
  /\ HasResult("CloseWindow", "ok")
  /\ err = ErrNone

\* C6: a run in which no aborting condition occurs returns no error and its
\* last report is "Cleanup complete!", whatever the outcomes of VCS removal,
\* directory removal, repository-name lookup and window closure.
C6_CompletesWithoutFatal ==
  (pc = "done" /\ ~FatalCondition) =>
    /\ err = ErrNone
    /\ LastReport = "Cleanup complete!"

C6_Witness ==
  /\ pc = "done"
  /\ ~FatalCondition
  /\ HasResult("RemoveWorktree", "fail")
  /\ HasResult("RemoveAll", "fail")
  /\ HasResult("GetRepoName", "fail")
  /\ HasResult("CloseWindow", "fail")

\* C7: each aborting condition ends the run with an error; no destructive
\* call was made before it, none is made after it, and "Cleanup complete!"
\* is never printed.
C7_FatalAbortsBeforeDestruction ==
  FatalCall =>
    /\ pc = "done"
    /\ err # ErrNone
    /\ \A i \in CallIdx : calls[i].op \notin DestructiveOps
    /\ ~Printed("Cleanup complete!")
    /\ exists = diskAtStart

C7_Witness ==
  /\ pc = "done"
  /\ err = ErrChdir
  /\ HasResult("Chdir", "fail")
  /\ HasResult("Stat", "ok")

\* C8: on Windows the run fails at once: no collaborator is called, no
\* cancellation context is acquired, nothing is printed and the working
\* directory and the disk are untouched.
C8_WindowsTouchesNothing ==
  (goos = "windows" /\ pc # "start") =>
    /\ pc = "done"
    /\ err = ErrWindows
    /\ calls = <<>>
    /\ out = <<>>
    /\ ctxAcquired = 0
    /\ released = 0
    /\ cwd = startDir
    /\ exists = diskAtStart
    /\ worktreePath = NoPath

C8_Witness == goos = "windows" /\ pc = "done" /\ Len(args) = 1 /\ inTmux

\* the same valid explicit identifier is torn down again and its path was
\* already missing when this invocation started
SecondRunOnAbsent ==
  /\ run >= 2
  /\ Len(args) = 1
  /\ ValidName(args[1])
  /\ (MainRoot \o <<KohDir, args[1]>>) \notin diskAtStart

\* C9 (as stated): a second teardown of an already removed target, whose
\* probe reports the path missing and in which no aborting condition occurs,
\* returns no error, reports no warning-level failure and issues no removal.
C9_AsStated ==
  (SecondRunOnAbsent /\ pc = "done" /\ ~FatalCondition /\ ProbeAbsent) =>
    /\ err = ErrNone
    /\ \A i \in 1..Len(out) : out[i] \notin FailureWarnings
    /\ \A i \in CallIdx : calls[i].op \notin RemovalOps

\* C9 (amended): a second teardown of an already removed target returns an
\* error only when an aborting condition occurs and never changes the disk;
\* when its probe reports the path missing it issues no removal and reports
\* no removal warning.  The session step is still attempted when a session
\* is active and may report a warning.
C9_SecondRunDegrades ==
  SecondRunOnAbsent =>
    /\ exists = diskAtStart
    /\ ~HasResult("Stat", "ok")
    /\ (pc = "done" /\ ~FatalCondition) =>
         /\ err = ErrNone
         /\ LastReport = "Cleanup complete!"
         /\ HasCall("CloseWindow") <=> inTmux
    /\ ProbeAbsent =>
         /\ \A i \in CallIdx : calls[i].op \notin RemovalOps
         /\ ~Printed("Warning: Failed to remove worktree")
         /\ ~Printed("Warning: Failed to remove worktree directory")
         /\ Printed("Warning: Worktree not found")

C9_Witness ==
  /\ SecondRunOnAbsent
  /\ pc = "done"
  /\ err = ErrNone
  /\ ProbeAbsent
  /\ args[1] = NameFx
  /\ inTmux
  /\ HasResult("CloseWindow", "fail")

\* C10: the cancellation context is acquired at most once and its release
\* runs exactly once on every return that follows the acquisition, and never
\* before the return.
C10_ContextReleasedOnEveryExit ==
  /\ ctxAcquired \in {0, 1}
  /\ ctxAcquired = 1 <=> HasCall("SetupCancellableContext")
  /\ HasCall("GetMainRepoRoot") => ctxAcquired = 1
  /\ pc = "done" => released = ctxAcquired
  /\ pc # "done" => released = 0

C10_Witness ==
  /\ pc = "done"
  /\ err = ErrChdir
  /\ ctxAcquired = 1
  /\ released = 1

LastCall == calls[Len(calls)]

\* C11: the context handed to the VCS removal is the one the signal handler
\* cancels; an interrupt arriving while the removal is in flight cancels the
\* context the removal holds, and a removal whose context is cancelled
\* eventually returns, with an error, instead of running on.
C11_CancelledRemovalReturns ==
  /\ [](pc = "rmwt_wait" => inflightCtx = CtxSignal /\ inflightCtx = ctx)
  /\ [][(pc = "rmwt_wait" /\ cancelledAt = Never /\ cancelledAt' # Never)
          => (pc' = "rmwt_wait" /\ InflightCancelled')]_vars
  /\ (pc = "rmwt_wait" /\ cancelledAt # Never)
       ~> (pc = "rmall" /\ LastCall.op = "RemoveWorktree"
                        /\ LastCall.res = "cancelled")

C11_Witness ==
  /\ pc = "rmall"
  /\ cancelledAt = "during"
  /\ LastCall.op = "RemoveWorktree"
  /\ LastCall.res = "cancelled"

\* the destructive calls of the run, in order
DestructiveCalls == SelectSeq(calls, LAMBDA c : c.op \in DestructiveOps)

\* an explicit valid identifier whose worktree is found, a working directory
\* outside it, an active session, and every collaborator succeeding
HappyPath ==
  /\ pc = "done"
  /\ Len(args) = 1
  /\ ValidName(args[1])
  /\ ~IsUnder(startDir, MainRoot \o <<KohDir, args[1]>>)
  /\ inTmux
  /\ HasResult("GetMainRepoRoot", "ok")
  /\ HasResult("Stat", "ok")
  /\ HasResult("Getwd", "ok")
  /\ HasResult("RemoveWorktree", "ok")
  /\ HasResult("RemoveAll", "ok")
  /\ HasResult("GetRepoName", "ok")
  /\ HasResult("CloseWindow", "ok")

\* C12: on the happy path the destructive calls are exactly VCS removal of
\* <root>/.koh/<identifier>, recursive removal of the same path (absent
\* afterwards), then closeWindow("R|<identifier>", <identifier>); the last
\* report is "Cleanup complete!" and the run returns nil.
C12_HappyPathSequence ==
  HappyPath =>
    LET target == MainRoot \o <<KohDir, args[1]>>
        d == DestructiveCalls
    IN /\ Len(d) = 3
       /\ d[1].op = "RemoveWorktree" /\ d[1].arg = target
       /\ d[2].op = "RemoveAll" /\ d[2].arg = target
       /\ target \notin exists
       /\ d[3].op = "CloseWindow"
       /\ d[3].arg = <<NameR \o <<"|">> \o args[1], args[1]>>
       /\ LastReport = "Cleanup complete!"
       /\ err = ErrNone

C12_Witness == HappyPath /\ args[1] = NameFx /\ cancelledAt = Never

\* the run has gone past the two removal steps
PastRemoval ==
  \/ pc \in {"tmux", "reponame", "closewindow", "complete"}
  \/ pc = "done" /\ err = ErrNone

\* C13 (as stated): every run that gets through the removal steps has
\* attempted the recursive removal of the worktree path.
C13_AsStated == PastRemoval => HasCall("RemoveAll")

\* C13 (amended): the recursive removal is attempted in every run that
\* reaches the removal steps unless the probe reported the path missing: it
\* follows the VCS removal whether that succeeded, failed or was cancelled,
\* and is skipped together with it when the path was reported missing.
C13_CleanupFollowsVcsRemoval ==
  /\ PastRemoval => (HasCall("RemoveAll") <=> ~ProbeAbsent)
  /\ \A i \in CallIdx :
       calls[i].op = "RemoveWorktree" =>
         \/ pc = "rmall" /\ i = Len(calls)
         \/ i < Len(calls) /\ calls[i + 1].op = "RemoveAll"
                           /\ calls[i + 1].arg = calls[i].arg
  /\ \A i \in CallIdx :
       calls[i].op = "RemoveAll" =>
         i > 1 /\ calls[i - 1].op = "RemoveWorktree"

C13_Witness ==
  /\ pc = "done"
  /\ HasResult("RemoveWorktree", "fail")
  /\ HasCall("RemoveAll")
  /\ err = ErrNone

\* C14 (as stated): a VCS removal is started only after a successful stat.
C14_AsStated ==
  (pc = "rmwt_wait" \/ HasCall("RemoveWorktree")) => HasResult("Stat", "ok")

\* C14 (amended): a VCS removal is started only after the stat, and only when
\* the stat did not report the path missing: after a successful stat and
\* after a stat failing with any other error, never after a not-exist error.
C14_VcsRemovalUnlessMissing ==
  /\ (pc = "rmwt_wait" \/ HasCall("RemoveWorktree")) =>
       /\ HasResult("Stat", "ok") \/ HasResult("Stat", "othererr")
       /\ ~ProbeAbsent
  /\ \A i \in CallIdx :
       calls[i].op = "RemoveWorktree" =>
         \E j \in 1..(i - 1) : calls[j].op = "Stat"
  /\ (PastRemoval /\ ~ProbeAbsent) => HasCall("RemoveWorktree")

C14_Witness ==
  /\ HasResult("Stat", "othererr")
  /\ HasCall("RemoveWorktree")
  /\ pc = "done"

\* position of a sequencer call in the order probe, VCS removal, directory
\* removal, session lookup, repository name, window closure; 0 for others
Rank(op) ==
  IF op = "Stat" THEN 1
  ELSE IF op = "RemoveWorktree" THEN 2
  ELSE IF op = "RemoveAll" THEN 3
  ELSE IF op = "IsInTmux" THEN 4
  ELSE IF op = "GetRepoName" THEN 5
  ELSE IF op = "CloseWindow" THEN 6
  ELSE 0

\* the sequencer's calls occur in strictly increasing order: none is
\* revisited and none runs before an earlier step
ForwardOnly ==
  \A i, j \in CallIdx :
    (i < j /\ Rank(calls[i].op) > 0 /\ Rank(calls[j].op) > 0)
      => Rank(calls[i].op) < Rank(calls[j].op)

\* the run has finished its last step
ReachedDone ==
  pc = "done" /\ err = ErrNone /\ LastReport = "Cleanup complete!"

\* C15 (as stated): the sequencer's steps run forward only, and a run that
\* has executed the existence probe and has ended, has ended in Done.
C15_AsStated ==
  /\ ForwardOnly
  /\ (pc = "done" /\ HasCall("Stat")) => ReachedDone

\* C15 (amended): the sequencer's steps run forward only, in the order probe,
\* VCS removal, directory removal, session closure, none revisited; a run
\* that has reached the VCS removal step eventually reaches Done whatever
\* the outcome of each step.  Between the probe and the VCS removal step a
\* failed working-directory lookup or relocation can still end the run.
C15_ForwardToDone ==
  /\ []ForwardOnly
  /\ [](pc = "done" /\ HasCall("Stat") /\ ~ReachedDone
          => err \in {ErrGetwd, ErrChdir})
  /\ (pc = "rmwt") ~> ReachedDone

C15_Witness ==
  /\ ReachedDone
  /\ HasResult("Stat", "ok")
  /\ HasResult("RemoveWorktree", "fail")
  /\ HasResult("RemoveAll", "fail")
  /\ HasResult("CloseWindow", "fail")
  /\ startDir = <<NameR, KohDir, NameFx>>

\* C16 (as stated): once the existence probe has executed the run no longer
\* returns an error, and the working-directory change precedes the probe.
C16_AsStated ==
  /\ HasCall("Stat") => err = ErrNone
  /\ \A i, j \in CallIdx :
       (calls[i].op = "Chdir" /\ calls[j].op = "Stat") => i < j

\* C16 (amended): every failure that ends the run early occurs before the
\* first removal step; the existence probe runs before the working-directory
\* lookup and the relocation, so after the probe the run can still return
\* the getwd or chdir error, and no other; once the VCS removal step is
\* reached the run no longer returns an error.
C16_FailuresPrecedeRemoval ==
  /\ (HasCall("Stat") /\ err # ErrNone) => err \in {ErrGetwd, ErrChdir}
  /\ (pc \in {"rmwt", "rmwt_wait", "rmall"} \/ PastRemoval) => err = ErrNone
  /\ err # ErrNone => \A i \in CallIdx : Rank(calls[i].op) < 2
  /\ \A i, j \in CallIdx :
       (calls[i].op = "Stat" /\ calls[j].op \in {"Getwd", "Chdir"}) => i < j
  /\ \A i, j \in CallIdx :
       (calls[i].op = "Chdir" /\ Rank(calls[j].op) >= 2) => i < j
  /\ HasCall("Getwd") => HasCall("Stat")

C16_Witness ==
  /\ pc = "done"
  /\ err = ErrGetwd
  /\ HasResult("Stat", "notexist")

\* C17 (as stated): the inside-target decision is true exactly when the
\* working directory is the target path or lies below it.
C17_InsideDecisionIsContainment ==
  pc = "relocate" => (isInTargetWorktree <=> IsUnder(cwd, worktreePath))

\* the run has gone past the session step
PastSession == pc = "complete" \/ (pc = "done" /\ err = ErrNone)

\* C18: window closure is attempted exactly when a session is active; it is
\* called with "<repository name>|<identifier>" and the identifier, the name
\* being empty when its lookup failed; with no session neither the lookup
\* nor closeWindow is called and only the informational notice is printed.
C18_SessionStep ==
  /\ (HasCall("GetRepoName") \/ HasCall("CloseWindow")) =>
       inTmux /\ HasResult("IsInTmux", "true")
  /\ Printed("Not in a tmux session, skipping tmux cleanup") =>
       ~inTmux /\ HasResult("IsInTmux", "false")
  /\ PastSession =>
       IF inTmux
         THEN LET repo == IF HasResult("GetRepoName", "fail")
                            THEN <<>> ELSE NameR
              IN /\ HasCall("GetRepoName")
                 /\ LastCall.op = "CloseWindow"
                 /\ LastCall.arg = <<repo \o <<"|">> \o worktreeName,
                                     worktreeName>>
                 /\ ~Printed("Not in a tmux session, skipping tmux cleanup")
         ELSE /\ ~HasCall("GetRepoName")
              /\ ~HasCall("CloseWindow")
              /\ Printed("Not in a tmux session, skipping tmux cleanup")
              /\ ~Printed("Warning: Failed to get repository name")
              /\ ~Printed("Warning: close window failed")

C18_Witness ==
  /\ pc = "done"
  /\ inTmux
  /\ HasResult("GetRepoName", "fail")
  /\ HasResult("CloseWindow", "ok")
  /\ worktreeName = NameFx

\* the operations called, in order
Ops == [i \in CallIdx |-> calls[i].op]

\* the operations of a complete run whose worktree was not reported missing
FullRunOps ==
  (IF Len(args) = 0 THEN <<"IsInWorktree", "GetCurrentWorktreePath">>
                    ELSE <<>>)
  \o <<"Validate", "SetupCancellableContext", "GetMainRepoRoot", "Stat",
       "Getwd">>
  \o (IF isInTargetWorktree THEN <<"Chdir">> ELSE <<>>)
  \o <<"RemoveWorktree", "RemoveAll", "IsInTmux">>
  \o (IF inTmux THEN <<"GetRepoName", "CloseWindow">> ELSE <<>>)

\* C19: cancelling the context never stops the run: a run with no aborting
\* condition ends in Done whenever the interrupt arrived, and after a VCS
\* removal, cancelled or not, the run executes the same steps, directory
\* removal and session step included, and returns nil.
C19_CancellationNeverStops ==
  /\ (pc = "done" /\ cancelledAt # Never /\ ~FatalCondition) => ReachedDone
  /\ (pc = "done" /\ HasCall("RemoveWorktree")) =>
       /\ ReachedDone
       /\ Ops = FullRunOps
  /\ HasResult("RemoveWorktree", "cancelled") =>
       /\ cancelledAt \in {"before", "during"}
       /\ err = ErrNone
       /\ PastRemoval => HasCall("RemoveAll")

C19_Witness ==
  /\ pc = "done"
  /\ cancelledAt = "during"
  /\ HasResult("RemoveWorktree", "cancelled")
  /\ HasCall("RemoveAll")
  /\ HasCall("CloseWindow")
  /\ ReachedDone

Count(op) == Cardinality({i \in CallIdx : calls[i].op = op})

\* C20: within one run the working-directory change, the VCS removal, the
\* directory removal and closeWindow are each executed at most once, all on
\* the one identifier that was validated, which is not modified afterwards.
C20_SingleTargetSingleShot ==
  /\ [](\A op \in {"Validate", "Stat", "Chdir", "RemoveWorktree", "RemoveAll",
                   "CloseWindow"} : Count(op) <= 1)
  /\ [](\A i \in CallIdx :
          /\ calls[i].op = "Validate" => calls[i].arg = worktreeName
          /\ calls[i].op \in RemovalOps =>
               calls[i].arg = MainRoot \o <<KohDir, worktreeName>>
          /\ calls[i].op = "CloseWindow" => calls[i].arg[2] = worktreeName
          /\ calls[i].op = "Chdir" => calls[i].arg = MainRoot)
  /\ [][pc \notin {"resolve", "done"} => worktreeName' = worktreeName]_vars

C20_Witness ==
  /\ pc = "done"
  /\ HasResult("Chdir", "ok")
  /\ HasResult("RemoveWorktree", "fail")
  /\ HasResult("RemoveAll", "fail")
  /\ HasResult("CloseWindow", "fail")
  /\ worktreeName = NameFx

====
